---- MODULE Spec2Model ----
(***************************************************************************)
(* Model of new_post.py: a script that writes a blog-post skeleton to a    *)
(* file named after today's date and the title words given on the command  *)
(* line, refusing to overwrite an existing file.                            *)
(*                                                                         *)
(* Several invocations of the script run against one filesystem.  Each     *)
(* invocation is a process whose steps are the statements of the script.   *)
(* A Python str is modelled as a sequence of one-character strings.        *)
(***************************************************************************)
EXTENDS Integers, Sequences, FiniteSets, TLC

\* ------------------------------------------------------------------ bounds

\* Longest argv[1:] an invocation is started with.
MaxWords == 2
\* How many times the calendar date may advance while the invocations run.
MaxTicks == 1
\* Longest prefix of the post a failed write may leave in the file.
MaxPartial == 1

\* The concurrent invocations of the script.
Procs == {"p1", "p2"}

\* The words an argv is made of: the empty word, a plain word, a word that
\* itself contains a hyphen.
Words == { <<>>, <<"a">>, <<"a", "-", "a">> }

\* The argument lists sys.argv[1:] can be.
RECURSIVE SeqsUpTo(_, _)
SeqsUpTo(S, n) ==
    IF n = 0 THEN { <<>> }
    ELSE LET shorter == SeqsUpTo(S, n - 1)
         IN  shorter \cup { Append(s, x) : s \in { t \in shorter : Len(t) = n - 1 }, x \in S }

Argvs == SeqsUpTo(Words, MaxWords)

\* ------------------------------------------------------------------ dates

\* The calendar date the system clock shows when the first invocation starts:
\* the last day of a year, so that a tick changes year, month and day.
StartDate == [year |-> 2024, month |-> 12, day |-> 31]

NoDate == [year |-> 0, month |-> 0, day |-> 0]

IsLeap(y) == (y % 4 = 0 /\ y % 100 # 0) \/ y % 400 = 0

DaysIn(y, m) ==
    IF m = 2 THEN (IF IsLeap(y) THEN 29 ELSE 28)
    ELSE IF m \in {4, 6, 9, 11} THEN 30 ELSE 31

\* The date after d on the system clock.
NextDay(d) ==
    IF d.day < DaysIn(d.year, d.month)
    THEN [d EXCEPT !.day = d.day + 1]
    ELSE IF d.month < 12
    THEN [d EXCEPT !.month = d.month + 1, !.day = 1]
    ELSE [year |-> d.year + 1, month |-> 1, day |-> 1]

Digit(n) == <<"0", "1", "2", "3", "4", "5", "6", "7", "8", "9">>[n + 1]

\* A number as decimal digits, zero-padded on the left to the given width.
RECURSIVE Padded(_, _)
Padded(n, width) ==
    IF width = 0 THEN <<>>
    ELSE Append(Padded(n \div 10, width - 1), Digit(n % 10))

\* today.strftime("%Y-%m-%d")
strftime(d) ==
    Padded(d.year, 4) \o <<"-">> \o Padded(d.month, 2) \o <<"-">> \o Padded(d.day, 2)

\* ---------------------------------------------------------------- strings

\* sep.join(items), the way str.join builds it: the first item, then for
\* every further item the separator and the item.
RECURSIVE JoinFrom(_, _, _, _)
JoinFrom(sep, items, i, acc) ==
    IF i > Len(items) THEN acc
    ELSE JoinFrom(sep, items, i + 1,
                  IF i = 1 THEN items[i] ELSE acc \o sep \o items[i])

\* A join that forgets the separator.
join_no_separator(sep, items) == JoinFrom(<<>>, items, 1, <<>>)

\* A join that ends every item, the last one too, with the separator.
join_trailing(sep, items) ==
    IF items = <<>> THEN <<>> ELSE JoinFrom(sep, items, 1, <<>>) \o sep

join(sep, items) == JoinFrom(sep, items, 1, <<>>)

Space == <<" ">>
Dash == <<"-">>
Newline == <<"\n">>

\* The frontmatter list of lines 17-23.
FrontmatterOf(spaced, dashed_date) ==
    << <<"-", "-", "-">>,
       <<"l", "a", "y", "o", "u", "t", ":", " ", "p", "o", "s", "t">>,
       <<"t", "i", "t", "l", "e", ":", " ">> \o spaced,
       <<"c", "r", "e", "a", "t", "e", "d", ":", " ">> \o dashed_date,
       <<"-", "-", "-">> >>

\* A post that ends with one blank line only.
PostOf_short(lines) == join(Newline, lines) \o Newline \o Newline

\* post = "\n".join(frontmatter) + "\n\n\n"
PostOf(lines) == join(Newline, lines) \o Newline \o Newline \o Newline

\* The file name of line 29: f"{today_dashed}-{title_dashed}.md"
FileNameOf(dashed_date, dashed) ==
    dashed_date \o <<"-">> \o dashed \o <<".", "m", "d">>

\* ------------------------------------------------------------------ state

VARIABLES
    clock,          \* the calendar date the system clock shows
    ticks,          \* how many times the date has advanced
    fs,             \* the filesystem: file name -> content
    fs0,            \* the filesystem before any invocation ran
    argv,           \* argv[p]: sys.argv[1:] of invocation p
    pc,             \* pc[p]: the line invocation p executes next
    today,          \* line 7
    title_raw,      \* line 8
    title_spaced,   \* line 13
    title_dashed,   \* line 14
    today_dashed,   \* line 15
    frontmatter,    \* line 17
    post,           \* line 25
    f,              \* line 29: the file object
    exc,            \* the exception that ended the invocation
    exit_status     \* the exit status of the process

vars == <<clock, ticks, fs, fs0, argv, pc, today, title_raw, title_spaced,
          title_dashed, today_dashed, frontmatter, post, f, exc, exit_status>>

locals == <<today, title_raw, title_spaced, title_dashed, today_dashed,
            frontmatter, post>>

\* No file object: line 29 has not been executed.
NoFile == [name |-> <<>>, state |-> "none"]

\* A file that has nothing to do with the posts, and the content of the
\* files that are there before the script runs.
OtherFile == <<"n", "o", "t", "e", "s">>
OldContent == <<"o", "l", "d">>

\* The filesystems the script may start in: without any post, or with the
\* post named "a" of the start date already there.
InitialFilesystems(d) ==
    { (OtherFile :> OldContent),
      (OtherFile :> OldContent) @@ (FileNameOf(strftime(d), <<"a">>) :> OldContent) }

Init ==
    /\ clock = StartDate
    /\ ticks = 0
    /\ fs \in InitialFilesystems(clock)
    /\ fs0 = fs
    /\ argv \in [Procs -> Argvs]
    /\ pc = [p \in Procs |-> "l7"]
    /\ today = [p \in Procs |-> NoDate]
    /\ title_raw = [p \in Procs |-> <<>>]
    /\ title_spaced = [p \in Procs |-> <<>>]
    /\ title_dashed = [p \in Procs |-> <<>>]
    /\ today_dashed = [p \in Procs |-> <<>>]
    /\ frontmatter = [p \in Procs |-> <<>>]
    /\ post = [p \in Procs |-> <<>>]
    /\ f = [p \in Procs |-> NoFile]
    /\ exc = [p \in Procs |-> "none"]
    /\ exit_status = [p \in Procs |-> -1]

\* ---------------------------------------------------------------- actions

\* An exception nothing catches: the interpreter prints the traceback and
\* the process exits with status 1.  This variant exits with status 0.
Raise_swallowed(p, e) ==
    /\ exc' = [exc EXCEPT ![p] = e]
    /\ exit_status' = [exit_status EXCEPT ![p] = 0]
    /\ pc' = [pc EXCEPT ![p] = "done"]

Raise(p, e) ==
    /\ exc' = [exc EXCEPT ![p] = e]
    /\ exit_status' = [exit_status EXCEPT ![p] = 1]
    /\ pc' = [pc EXCEPT ![p] = "done"]

\* The end of the script: the process exits with status 0.
Exit(p) ==
    /\ exit_status' = [exit_status EXCEPT ![p] = 0]
    /\ pc' = [pc EXCEPT ![p] = "done"]
    /\ UNCHANGED exc

\* The system clock passes midnight.
Tick ==
    /\ ticks < MaxTicks
    /\ clock' = NextDay(clock)
    /\ ticks' = ticks + 1
    /\ UNCHANGED <<fs, fs0, argv, pc, locals, f, exc, exit_status>>

\* line 7: today = date.today()
ReadToday(p) ==
    /\ pc[p] = "l7"
    /\ today' = [today EXCEPT ![p] = clock]
    /\ pc' = [pc EXCEPT ![p] = "l8"]
    /\ UNCHANGED <<clock, ticks, fs, fs0, argv, title_raw, title_spaced,
                   title_dashed, today_dashed, frontmatter, post, f, exc,
                   exit_status>>

\* lines 8-11 without the check of line 10.
CheckTitle_unchecked(p) ==
    /\ pc[p] = "l8"
    /\ title_raw' = [title_raw EXCEPT ![p] = argv[p]]
    /\ pc' = [pc EXCEPT ![p] = "l13"]
    /\ UNCHANGED <<clock, ticks, fs, fs0, argv, today, title_spaced,
                   title_dashed, today_dashed, frontmatter, post, f, exc,
                   exit_status>>

\* lines 8-11: title_raw = sys.argv[1:]; an empty title raises RuntimeError
CheckTitle(p) ==
    /\ pc[p] = "l8"
    /\ title_raw' = [title_raw EXCEPT ![p] = argv[p]]
    /\ IF argv[p] = <<>>
       THEN Raise(p, "RuntimeError")
       ELSE /\ pc' = [pc EXCEPT ![p] = "l13"]
            /\ UNCHANGED <<exc, exit_status>>
    /\ UNCHANGED <<clock, ticks, fs, fs0, argv, today, title_spaced,
                   title_dashed, today_dashed, frontmatter, post, f>>

\* lines 13-25: the two joined titles, the formatted date, the post
Derive(p) ==
    /\ pc[p] = "l13"
    /\ title_spaced' = [title_spaced EXCEPT ![p] = join(Space, title_raw[p])]
    /\ title_dashed' = [title_dashed EXCEPT ![p] = join(Dash, title_raw[p])]
    /\ today_dashed' = [today_dashed EXCEPT ![p] = strftime(today[p])]
    /\ frontmatter' = [frontmatter EXCEPT ![p] =
                         FrontmatterOf(title_spaced'[p], today_dashed'[p])]
    /\ post' = [post EXCEPT ![p] = PostOf(frontmatter'[p])]
    /\ pc' = [pc EXCEPT ![p] = "l29"]
    /\ UNCHANGED <<clock, ticks, fs, fs0, argv, today, title_raw, f, exc,
                   exit_status>>

\* A name whose date is read from the clock again when the file is opened.
FileName_rereads_clock(p) == FileNameOf(strftime(clock), title_dashed[p])

\* The name line 29 opens.
FileName(p) == FileNameOf(today_dashed[p], title_dashed[p])

\* line 29 with mode "w": an existing file is truncated, never refused.
Open_truncating(p) ==
    /\ pc[p] = "l29"
    /\ \/ /\ fs' = IF FileName(p) \in DOMAIN fs
                   THEN [fs EXCEPT ![FileName(p)] = <<>>]
                   ELSE fs @@ (FileName(p) :> <<>>)
          /\ f' = [f EXCEPT ![p] = [name |-> FileName(p), state |-> "open"]]
          /\ pc' = [pc EXCEPT ![p] = "l30"]
          /\ UNCHANGED <<exc, exit_status>>
       \/ /\ FileName(p) \notin DOMAIN fs
          /\ Raise(p, "OSError")
          /\ UNCHANGED <<fs, f>>
    /\ UNCHANGED <<clock, ticks, fs0, argv, locals>>

\* line 29 with mode "a": an existing file is opened as it is, never refused.
Open_appending(p) ==
    /\ pc[p] = "l29"
    /\ \/ /\ fs' = IF FileName(p) \in DOMAIN fs
                   THEN fs
                   ELSE fs @@ (FileName(p) :> <<>>)
          /\ f' = [f EXCEPT ![p] = [name |-> FileName(p), state |-> "open"]]
          /\ pc' = [pc EXCEPT ![p] = "l30"]
          /\ UNCHANGED <<exc, exit_status>>
       \/ /\ FileName(p) \notin DOMAIN fs
          /\ Raise(p, "OSError")
          /\ UNCHANGED <<fs, f>>
    /\ UNCHANGED <<clock, ticks, fs0, argv, locals>>

\* line 29: open(name, "x").  An existing name raises FileExistsError and
\* the file is left alone; otherwise the file is created empty, unless the
\* filesystem refuses (permissions, no space, a name it does not accept).
Open(p) ==
    /\ pc[p] = "l29"
    /\ IF FileName(p) \in DOMAIN fs
       THEN /\ Raise(p, "FileExistsError")
            /\ UNCHANGED <<fs, f>>
       ELSE \/ /\ fs' = fs @@ (FileName(p) :> <<>>)
               /\ f' = [f EXCEPT ![p] = [name |-> FileName(p), state |-> "open"]]
               /\ pc' = [pc EXCEPT ![p] = "l30"]
               /\ UNCHANGED <<exc, exit_status>>
            \/ /\ Raise(p, "OSError")
               /\ UNCHANGED <<fs, f>>
    /\ UNCHANGED <<clock, ticks, fs0, argv, locals>>

\* What a write that fails part-way may have appended: a proper prefix.
PartialWrites(s) ==
    { SubSeq(s, 1, k) : k \in { n \in 0..MaxPartial : n < Len(s) } }

\* line 30 when the data never reaches the file but no error is reported.
Write_lost(p) ==
    /\ pc[p] = "l30"
    /\ f' = [f EXCEPT ![p].state = "closed"]
    /\ Exit(p)
    /\ UNCHANGED <<clock, ticks, fs, fs0, argv, locals>>

\* line 30 and the end of the with block: f.write(post), then the file is
\* flushed and closed.  The text is appended at the file's position; when
\* the filesystem fails (disk full) a proper prefix is all that got there.
Write(p) ==
    /\ pc[p] = "l30"
    /\ f' = [f EXCEPT ![p].state = "closed"]
    /\ \/ /\ fs' = [fs EXCEPT ![f[p].name] = @ \o post[p]]
          /\ Exit(p)
       \/ /\ \E part \in PartialWrites(post[p]) :
                fs' = [fs EXCEPT ![f[p].name] = @ \o part]
          /\ Raise(p, "OSError")
    /\ UNCHANGED <<clock, ticks, fs0, argv, locals>>

\* One statement of invocation p.
Step(p) ==
    \/ ReadToday(p)
    \/ CheckTitle(p)
    \/ Derive(p)
    \/ Open(p)
    \/ Write(p)

Next ==
    \/ Tick
    \/ \E p \in Procs : Step(p)

Spec == Init /\ [][Next]_vars

\* ------------------------------------------------- the title projections

\* Titles over a richer alphabet, for the two joins of lines 13 and 14: every
\* invocation is given the same argv and runs up to line 25, without any
\* file I/O.
MaxWordLen == 2

Alphabet == {"a", " ", "-"}

TitleWords == SeqsUpTo(Alphabet, MaxWordLen)

TitleArgvs == SeqsUpTo(TitleWords, MaxWords)

TitleInit ==
    /\ clock = StartDate
    /\ ticks = 0
    /\ fs = (OtherFile :> OldContent)
    /\ fs0 = fs
    /\ argv \in { [p \in Procs |-> t] : t \in TitleArgvs }
    /\ pc = [p \in Procs |-> "l7"]
    /\ today = [p \in Procs |-> NoDate]
    /\ title_raw = [p \in Procs |-> <<>>]
    /\ title_spaced = [p \in Procs |-> <<>>]
    /\ title_dashed = [p \in Procs |-> <<>>]
    /\ today_dashed = [p \in Procs |-> <<>>]
    /\ frontmatter = [p \in Procs |-> <<>>]
    /\ post = [p \in Procs |-> <<>>]
    /\ f = [p \in Procs |-> NoFile]
    /\ exc = [p \in Procs |-> "none"]
    /\ exit_status = [p \in Procs |-> -1]

TitleNext ==
    \E p \in Procs :
        \/ ReadToday(p)
        \/ CheckTitle(p)
        \/ Derive(p)

SpecTitle == TitleInit /\ [][TitleNext]_vars

\* ------------------------------------------------------------ vocabulary

\* How an invocation ended, in the terms of the error taxonomy.
Outcome(p) ==
    IF pc[p] # "done" THEN "running"
    ELSE CASE exc[p] = "none" -> "Success"
           [] exc[p] = "RuntimeError" -> "InvalidInput"
           [] exc[p] = "FileExistsError" -> "AlreadyExists"
           [] exc[p] = "OSError" -> "IOFailure"

Success(p) == Outcome(p) = "Success"

\* Invocation p created a file: it got past the open of line 29.
Created(p) == f[p].state # "none"

IsPrefix(s, t) == Len(s) <= Len(t) /\ SubSeq(t, 1, Len(s)) = s

\* s.split(c): the pieces of s between the occurrences of the character c.
RECURSIVE Split(_, _)
Split(s, c) ==
    IF \A i \in 1..Len(s) : s[i] # c
    THEN << s >>
    ELSE LET i == CHOOSE k \in 1..Len(s) :
                      s[k] = c /\ \A j \in 1..(k - 1) : s[j] # c
         IN  << SubSeq(s, 1, i - 1) >> \o Split(SubSeq(s, i + 1, Len(s)), c)

\* The words with sep between every two neighbours, and nowhere else.
RECURSIVE Interleave(_, _)
Interleave(words, sep) ==
    IF Len(words) = 1 THEN words[1]
    ELSE words[1] \o sep \o Interleave(Tail(words), sep)

Digits == {"0", "1", "2", "3", "4", "5", "6", "7", "8", "9"}

DigitValue(c) ==
    CASE c = "0" -> 0 [] c = "1" -> 1 [] c = "2" -> 2 [] c = "3" -> 3
      [] c = "4" -> 4 [] c = "5" -> 5 [] c = "6" -> 6 [] c = "7" -> 7
      [] c = "8" -> 8 [] c = "9" -> 9

RECURSIVE Number(_)
Number(ds) ==
    IF ds = <<>> THEN 0
    ELSE 10 * Number(SubSeq(ds, 1, Len(ds) - 1)) + DigitValue(ds[Len(ds)])

\* s has the shape YYYY-MM-DD.
IsDateText(s) ==
    /\ Len(s) = 10
    /\ s[5] = "-" /\ s[8] = "-"
    /\ \A i \in {1, 2, 3, 4, 6, 7, 9, 10} : s[i] \in Digits

\* The date a text of the shape YYYY-MM-DD names.
DateOfText(s) ==
    [year |-> Number(SubSeq(s, 1, 4)),
     month |-> Number(SubSeq(s, 6, 7)),
     day |-> Number(SubSeq(s, 9, 10))]

\* name is {date}-{words joined by single hyphens}.md
NameIs(name, d, words) ==
    /\ Len(name) > 10
    /\ IsDateText(SubSeq(name, 1, 10))
    /\ DateOfText(SubSeq(name, 1, 10)) = d
    /\ SubSeq(name, 11, Len(name)) =
           <<"-">> \o Interleave(words, <<"-">>) \o <<".", "m", "d">>

\* The five lines, each ended by a newline, and two blank lines.
TemplateText(title, created) ==
    <<"-", "-", "-", "\n">>
    \o <<"l", "a", "y", "o", "u", "t", ":", " ", "p", "o", "s", "t", "\n">>
    \o <<"t", "i", "t", "l", "e", ":", " ">> \o title \o <<"\n">>
    \o <<"c", "r", "e", "a", "t", "e", "d", ":", " ">> \o created \o <<"\n">>
    \o <<"-", "-", "-", "\n">>
    \o <<"\n", "\n">>

\* No word of the title contains the character c.
Without(words, c) ==
    \A i \in 1..Len(words) : \A j \in 1..Len(words[i]) : words[i][j] # c

\* ------------------------------------------------------------------- C1

\* C1: an invocation that reaches the open of line 29 while a file of its
\* target name {date}-{hyphen-joined words}.md exists ends there with
\* FileExistsError (AlreadyExists) and a non-zero status, without a file
\* object, and that step leaves every file's content as it was.
NoClobber ==
    [][ \A p \in Procs :
          ( /\ pc[p] = "l29"
            /\ pc'[p] # "l29"
            /\ \E n \in DOMAIN fs : NameIs(n, today[p], argv[p]) )
          => ( /\ pc'[p] = "done"
               /\ exc'[p] = "FileExistsError"
               /\ exit_status'[p] # 0
               /\ f'[p] = NoFile
               /\ fs' = fs ) ]_vars

\* C1 witness: the same title on the same date twice; the second invocation
\* ended with AlreadyExists and the file holds what the first wrote.
NoClobberWitness ==
    \E p, q \in Procs :
        /\ p # q
        /\ argv[p] = argv[q]
        /\ today[p] = today[q]
        /\ Success(q)
        /\ Outcome(p) = "AlreadyExists"
        /\ fs[f[q].name] = post[q]

\* ------------------------------------------------------------------- C2

\* C2: an invocation with no title words goes from line 8 straight to its
\* end with RuntimeError (InvalidInput) and a non-zero status; it never
\* reaches line 29, never has a file object, and no step it takes changes
\* the filesystem.
EmptyTitleFailsBeforeIO ==
    /\ [] ( \A p \in Procs :
              argv[p] = <<>> =>
                 /\ f[p] = NoFile
                 /\ \/ pc[p] \in {"l7", "l8"}
                    \/ /\ pc[p] = "done"
                       /\ exc[p] = "RuntimeError"
                       /\ exit_status[p] # 0 )
    /\ [][ \A p \in Procs :
             (argv[p] = <<>> /\ pc'[p] # pc[p]) => fs' = fs ]_vars

\* C2 witness: an invocation without title words has failed while a post
\* file is there, untouched.
EmptyTitleWitness ==
    \E p \in Procs :
        /\ argv[p] = <<>>
        /\ Outcome(p) = "InvalidInput"
        /\ DOMAIN fs # {OtherFile}
        /\ \A n \in DOMAIN fs0 : fs[n] = fs0[n]

\* ------------------------------------------------------------------- C3

\* C3: after a successful invocation the file it opened is named
\* {date}-{words joined by single hyphens}.md, was not there before, and
\* holds exactly the five template lines with the space-joined title and
\* the date, each ended by a newline, followed by two blank lines.
PostCreated ==
    \A p \in Procs :
        Success(p) =>
            LET n == f[p].name
            IN  /\ NameIs(n, today[p], argv[p])
                /\ n \in DOMAIN fs
                /\ n \notin DOMAIN fs0
                /\ fs[n] = TemplateText(Interleave(argv[p], <<" ">>), SubSeq(n, 1, 10))

\* C3 witness: one invocation with a single word and one with two words
\* have both succeeded.
PostCreatedWitness ==
    \E p, q \in Procs :
        /\ Success(p) /\ Len(argv[p]) = 1 /\ argv[p][1] = <<"a">>
        /\ Success(q) /\ Len(argv[q]) = 2 /\ argv[q][1] # <<>> /\ argv[q][2] # <<>>

\* ------------------------------------------------------------------- C4

\* C4 as stated: every file the script has created holds the complete post
\* of the invocation that created it, in every reachable state.
WriteIsAtomic ==
    \A n \in DOMAIN fs \ DOMAIN fs0 :
        \E p \in Procs : Created(p) /\ f[p].name = n /\ fs[n] = post[p]

\* C4 amended: every file the script has created holds a prefix of the post
\* of the invocation that created it; the prefix is proper (the file is
\* empty or partial) only while that invocation is between the open of
\* line 29 and the write of line 30, or after its write failed with an I/O
\* error; once the invocation has exited with success the file is complete.
\* An invocation that fails at line 29 or earlier has created nothing.
WriteIsPrefix ==
    /\ \A n \in DOMAIN fs \ DOMAIN fs0 :
          \E p \in Procs :
              /\ Created(p)
              /\ f[p].name = n
              /\ IsPrefix(fs[n], post[p])
              /\ fs[n] # post[p] => (pc[p] = "l30" \/ Outcome(p) = "IOFailure")
    /\ \A p \in Procs :
          /\ Success(p) => (Created(p) /\ fs[f[p].name] = post[p])
          /\ Outcome(p) \in {"InvalidInput", "AlreadyExists"} => ~Created(p)

\* C4 witness: a write failed and left a file that is not the complete post.
WriteIsPrefixWitness ==
    \E p \in Procs :
        /\ Outcome(p) = "IOFailure"
        /\ Created(p)
        /\ Len(fs[f[p].name]) = 1

\* ------------------------------------------------------------------- C5

\* All invocations were started with the same title words, read the same
\* date, and their target was not there before the first of them ran.
SameTarget ==
    /\ \A p, q \in Procs : argv[p] = argv[q] /\ today[p] = today[q]
    /\ \A p \in Procs : argv[p] # <<>> /\ today[p] # NoDate
    /\ \A n \in DOMAIN fs0 : \A p \in Procs : ~NameIs(n, today[p], argv[p])

AllDone == \A p \in Procs : pc[p] = "done"

\* Exactly one invocation succeeded, all others ended with AlreadyExists,
\* and the file holds the winner's post.
OneWinner ==
    \E w \in Procs :
        /\ Success(w)
        /\ \A p \in Procs \ {w} : Outcome(p) = "AlreadyExists"
        /\ fs[f[w].name] = post[w]

\* C5 as stated: once concurrent invocations with the same title and date
\* have all finished, exactly one has succeeded, every other has observed
\* AlreadyExists, and the file holds exactly the winner's post.
ExactlyOneWinner == (SameTarget /\ AllDone) => OneWinner

\* C5 amended: among concurrent invocations with the same title and date,
\* at most one ever creates the file; every other one that has finished
\* ended with AlreadyExists or IOFailure and without a file object; the
\* file only ever holds a prefix of its creator's post, and it is the only
\* new file; and once all have finished without any I/O
\* failure, exactly one has succeeded, every other has observed
\* AlreadyExists, and the file holds exactly the winner's post.
AtMostOneCreator ==
    SameTarget =>
        /\ Cardinality({ p \in Procs : Created(p) }) <= 1
        /\ \A p \in Procs :
              (pc[p] = "done" /\ ~Created(p)) =>
                  Outcome(p) \in {"AlreadyExists", "IOFailure"}
        /\ \A p \in Procs :
              Created(p) =>
                  /\ DOMAIN fs \ DOMAIN fs0 = {f[p].name}
                  /\ IsPrefix(fs[f[p].name], post[p])
        /\ (AllDone /\ \A p \in Procs : Outcome(p) # "IOFailure") => OneWinner

\* C5 witness: all invocations had the same title and date and have
\* finished: one won, the others observed AlreadyExists.
OneWinnerWitness == SameTarget /\ AllDone /\ OneWinner

\* ------------------------------------------------------------------- C6

\* The statements of the script in the order it runs them.
Rank(l) ==
    CASE l = "l7" -> 1 [] l = "l8" -> 2 [] l = "l13" -> 3
      [] l = "l29" -> 4 [] l = "l30" -> 5 [] l = "done" -> 6

\* C6: every invocation terminates (until it has ended it can always take
\* its next step, and every step takes it further down the script), in
\* exactly one of the four outcomes: InvalidInput exactly when it has no
\* title words, otherwise AlreadyExists, IOFailure or success; its exit
\* status is zero exactly when it succeeded, which is exactly when it
\* created its file and the file holds its whole post; and an invocation
\* that has ended takes no further step: nothing is retried.
ExitStatusMatchesOutcome ==
    /\ [] ( \A p \in Procs :
              IF pc[p] = "done"
              THEN /\ exc[p] \in {"none", "RuntimeError", "FileExistsError", "OSError"}
                   /\ exit_status[p] \in {0, 1}
                   /\ exit_status[p] = 0 <=> exc[p] = "none"
                   /\ exit_status[p] = 0 <=>
                         (Created(p) /\ f[p].state = "closed"
                          /\ fs[f[p].name] = post[p])
                   /\ exc[p] = "RuntimeError" <=> argv[p] = <<>>
                   /\ exc[p] = "FileExistsError" => ~Created(p)
                   /\ ~ENABLED Step(p)
              ELSE /\ exit_status[p] = -1
                   /\ exc[p] = "none"
                   /\ ENABLED Step(p) )
    /\ [][ \A p \in Procs :
             /\ pc'[p] # pc[p] => Rank(pc'[p]) > Rank(pc[p])
             /\ pc'[p] = pc[p] =>
                   /\ exc'[p] = exc[p]
                   /\ exit_status'[p] = exit_status[p]
                   /\ f'[p] = f[p] ]_vars

\* C6 witness: one invocation has exited with status 0 after writing its
\* post, another with a non-zero status after an I/O failure.
ExitStatusWitness ==
    \E p, q \in Procs :
        /\ Success(p) /\ exit_status[p] = 0
        /\ Outcome(q) = "IOFailure" /\ exit_status[q] = 1

\* ------------------------------------------------------------------- C7

\* C7: a step of an invocation changes the filesystem only by creating the
\* file of its computed target name or by writing to the file it created
\* itself; no step removes a file or touches a file that was there before;
\* the step that ends an invocation with InvalidInput or AlreadyExists
\* changes nothing, and such an invocation never changed anything.  So the
\* files of the initial filesystem keep their content, the new files are
\* exactly the ones of the invocations that got past line 29, one each, and
\* a successful invocation has added its one file.
FrameCondition ==
    /\ [] ( /\ \A n \in DOMAIN fs0 : n \in DOMAIN fs /\ fs[n] = fs0[n]
            /\ DOMAIN fs \ DOMAIN fs0 = { f[p].name : p \in { q \in Procs : Created(q) } }
            /\ \A p, q \in Procs :
                  (Created(p) /\ Created(q) /\ f[p].name = f[q].name) => p = q
            /\ \A p \in Procs :
                  /\ Success(p) => Created(p)
                  /\ Outcome(p) \in {"InvalidInput", "AlreadyExists"} => ~Created(p) )
    /\ [][ /\ (\A p \in Procs : pc'[p] = pc[p]) => fs' = fs
           /\ \A p \in Procs :
                pc'[p] # pc[p] =>
                   /\ DOMAIN fs \subseteq DOMAIN fs'
                   /\ \A n \in DOMAIN fs' \ DOMAIN fs :
                         NameIs(n, today[p], argv[p])
                   /\ \A n \in DOMAIN fs :
                         fs'[n] # fs[n] =>
                            (n = f[p].name /\ f[p].state = "open" /\ n \notin DOMAIN fs0)
                   /\ (pc'[p] = "done" /\ exc'[p] \in {"RuntimeError", "FileExistsError"})
                         => fs' = fs ]_vars

\* C7 witness: both invocations have succeeded, each has added its own file,
\* beside a post that was there before.
FrameWitness ==
    /\ \A p \in Procs : Success(p)
    /\ Cardinality(DOMAIN fs \ DOMAIN fs0) = Cardinality(Procs)
    /\ Cardinality(DOMAIN fs0) = 2

\* ------------------------------------------------------------------- C8

\* C8: for title words without a space and without a hyphen, splitting the
\* space-joined title on spaces and the hyphen-joined title on hyphens both
\* give back the title words.
JoinRoundTrip ==
    \A p \in Procs :
        ( /\ pc[p] = "l29"
          /\ Without(title_raw[p], " ")
          /\ Without(title_raw[p], "-") )
        => /\ Split(title_spaced[p], " ") = title_raw[p]
           /\ Split(title_dashed[p], "-") = title_raw[p]

\* C8 witness: the joins of a title of several words, one of them of two
\* characters, none with a space or a hyphen.
JoinRoundTripWitness ==
    \E p \in Procs :
        /\ pc[p] = "l29"
        /\ Len(title_raw[p]) = MaxWords
        /\ Without(title_raw[p], " ")
        /\ Without(title_raw[p], "-")
        /\ \E i \in 1..Len(title_raw[p]) : Len(title_raw[p][i]) = 2
        /\ Len(title_dashed[p]) > Len(title_raw[p][1])

\* ------------------------------------------------------------------- C9

\* C9: in the file of every successful invocation the date of the file name
\* and the date of the created: line are the same text, and it names the
\* date the invocation read at line 7, whatever the clock shows later.
DateConsistent ==
    \A p \in Procs :
        Success(p) =>
            LET n == f[p].name
                lines == Split(fs[n], "\n")
            IN  /\ Len(n) > 10
                /\ Len(lines) > 3
                /\ lines[4] = <<"c", "r", "e", "a", "t", "e", "d", ":", " ">>
                                  \o SubSeq(n, 1, 10)
                /\ IsDateText(SubSeq(n, 1, 10))
                /\ DateOfText(SubSeq(n, 1, 10)) = today[p]

\* C9 witness: the date changed after an invocation had read it and before
\* the invocation wrote its file.
DateConsistentWitness ==
    \E p \in Procs : Success(p) /\ clock # today[p]

\* ------------------------------------------------------------------ C10

\* Invocations p and q were started with different title words and read the
\* same date, and both have computed their titles.
DifferentTitles(p, q) ==
    /\ p # q
    /\ argv[p] # argv[q]
    /\ today[p] = today[q]
    /\ pc[p] \in {"l29", "l30", "done"} /\ argv[p] # <<>>
    /\ pc[q] \in {"l29", "l30", "done"} /\ argv[q] # <<>>

\* p and q have different target names, and p did not fail on q's file.
Independent(p, q) ==
    /\ FileName(p) # FileName(q)
    /\ ~(Outcome(p) = "AlreadyExists" /\ Created(q) /\ f[q].name = FileName(p))

\* C10 as stated: two invocations on the same date with different title
\* words have different target names, and neither fails with AlreadyExists
\* on the file the other created.
DifferentTitlesIndependent ==
    \A p, q \in Procs : DifferentTitles(p, q) => Independent(p, q)

\* C10 amended: the same, for title words that contain no hyphen (empty
\* words included).
HyphenFreeTitlesIndependent ==
    \A p, q \in Procs :
        (DifferentTitles(p, q) /\ Without(argv[p], "-") /\ Without(argv[q], "-"))
        => Independent(p, q)

\* C10 witness: two different hyphen-free titles, one with an empty word,
\* on the same date; both invocations have succeeded.
HyphenFreeWitness ==
    \E p, q \in Procs :
        /\ DifferentTitles(p, q)
        /\ Without(argv[p], "-") /\ Without(argv[q], "-")
        /\ \E i \in 1..Len(argv[p]) : argv[p][i] = <<>>
        /\ Success(p) /\ Success(q)

====
